---- MODULE Spec2Model ----
(***************************************************************************)
(* Payment / subscription lifecycle of Retgrow-Learn-API.                  *)
(*                                                                         *)
(* The ledger (PaymentTransaction rows), the Subscription rows, the        *)
(* payment gateway's own view of each payment, and one request slot per    *)
(* endpoint that calls verify_and_activate_subscription: "verify" runs     *)
(* GET /payments/verify/{reference}, "paystack", "opay" and "stripe" run   *)
(* POST /payments/webhook/{provider}, one delivery at a time.  A handler   *)
(* that awaits (database, gateway) is split at its awaits, so that slots   *)
(* interleave as requests served by the application do.                    *)
(*                                                                         *)
(* Time is counted in days.  A request lasts seconds (the gateway calls    *)
(* time out after 30 s), so the clock only advances between requests.      *)
(* created_at has microsecond resolution: rows are ordered by insertion,   *)
(* and a row's position in subs / txns stands for its created_at.          *)
(***************************************************************************)
EXTENDS Integers, Sequences, FiniteSets, TLC

\* ---------------------------------------------------------------- bounds
MaxTxns == 2
MaxSubs == 3
MaxNow == 41
MaxLedger == 4

\* ------------------------------------------------------------- constants
DaysMonthly == 30
DaysYearly == 365
PriceFocusedMonthly == 700
PriceFocusedYearly == 6000
PriceProMonthly == 1500
PriceProYearly == 12000
PriorityPro == 3
PriorityFocused == 2
PriorityFree == 1
\* a nullable date column holding NULL, a nullable foreign key holding NULL
NoDate == 0
NoSub == 0

Users == {"u1", "u2"}
Slots == {"verify", "paystack", "opay", "stripe"}
Hooks == {"paystack", "opay", "stripe"}
Crons == {"c1", "c2"}
Providers == {"PAYSTACK", "OPAY", "STRIPE"}
\* the requests the users make of POST /payments/initialize
Offers ==
  { <<"u1", "FOCUSED", "MONTHLY", "PAYSTACK">>,
    <<"u1", "PRO", "YEARLY", "STRIPE">>,
    <<"u2", "PRO", "MONTHLY", "OPAY">>,
    <<"u2", "FREE", "MONTHLY", "PAYSTACK">> }
\* how far the clock moves between two requests
TickSteps == {20}

VARIABLES
  now,        \* datetime.utcnow(), in days
  txns,       \* PaymentTransaction rows, reference = position
  subs,       \* Subscription rows, id = position
  gateway,    \* the gateway's own status of each reference
  secret,     \* settings.*_SECRET_KEY / STRIPE_WEBHOOK_SECRET per provider
  pc,         \* where each request slot stands in its handler
  ref,        \* the reference a slot's verify_and_activate works on
  vres,       \* the PaymentVerifyResult a slot got from the gateway
  held,       \* the Subscription a slot's session loaded (id and loaded values)
  last,       \* what the step just taken sent out: an HTTP answer, a gateway call
  first,      \* per reference, what the first verify_and_activate to finish returned
  applied,    \* per reference, how many activations were committed
  cron        \* the runs of POST /cron/renew-subscriptions: where each stands

vars == << now, txns, subs, gateway, secret, pc, ref, vres, held, last, first, applied,
          cron >>

\* ------------------------------------------------------- pure functions

\* a price table with the two billing cycles exchanged
get_plan_amount_CyclesSwapped(plan, billing_cycle) ==
  IF plan = "FREE" THEN 0
  ELSE IF plan = "FOCUSED"
    THEN (IF billing_cycle = "MONTHLY" THEN PriceFocusedYearly ELSE PriceFocusedMonthly)
    ELSE (IF billing_cycle = "MONTHLY" THEN PriceProYearly ELSE PriceProMonthly)

\* schemas.get_plan_amount over PLAN_PRICING
get_plan_amount(plan, billing_cycle) ==
  IF plan = "FREE" THEN 0
  ELSE IF plan = "FOCUSED"
    THEN (IF billing_cycle = "MONTHLY" THEN PriceFocusedMonthly ELSE PriceFocusedYearly)
    ELSE (IF billing_cycle = "MONTHLY" THEN PriceProMonthly ELSE PriceProYearly)

\* payment_service.calculate_end_date, with utcnow() = t
calculate_end_date(billing_cycle, t) ==
  IF billing_cycle = "MONTHLY" THEN t + DaysMonthly ELSE t + DaysYearly

\* the PRIORITY map of get_best_valid_subscription (PRIORITY.get(plan, 0))
PRIORITY(plan) ==
  CASE plan = "PRO" -> PriorityPro
    [] plan = "FOCUSED" -> PriorityFocused
    [] plan = "FREE" -> PriorityFree
    [] OTHER -> 0

SubIds == 1..Len(subs)
Refs == 1..Len(txns)

MaxOf(S) == CHOOSE x \in S : \A y \in S : y <= x

\* payment_service.get_active_subscription: the user's newest ACTIVE row, or none
get_active_subscription(user_id) ==
  LET rows == { i \in SubIds : subs[i].user = user_id /\ subs[i].status = "ACTIVE" }
  IN  IF rows = {} THEN NoSub ELSE MaxOf(rows)

\* a variant without the grace period: only ACTIVE rows count
IsValidAt_ActiveOnly(s, t) == s.status = "ACTIVE"

\* the WHERE clause of get_best_valid_subscription at time t
IsValidAt(s, t) ==
  \/ s.status = "ACTIVE"
  \/ s.status = "CANCELLED" /\ s.end_date # NoDate /\ s.end_date > t

\* a resolution that takes the newest row that counts, whatever its plan
get_best_valid_subscription_Newest(user_id, t) ==
  LET rows == { i \in SubIds : subs[i].user = user_id /\ IsValidAt(subs[i], t) }
  IN  IF rows = {} THEN NoSub ELSE MaxOf(rows)

\* subscription_service.get_best_valid_subscription: highest priority, then newest
get_best_valid_subscription(user_id, t) ==
  LET rows == { i \in SubIds : subs[i].user = user_id /\ IsValidAt(subs[i], t) }
  IN  IF rows = {} THEN NoSub
      ELSE CHOOSE i \in rows : \A j \in rows :
             \/ PRIORITY(subs[i].plan) > PRIORITY(subs[j].plan)
             \/ PRIORITY(subs[i].plan) = PRIORITY(subs[j].plan) /\ i >= j

\* access_control_service._get_user_plan
get_user_plan(user_id, t) ==
  LET best == get_best_valid_subscription(user_id, t)
  IN  IF best # NoSub THEN subs[best].plan ELSE "FREE"

\* the default of the auto_renew column, which a row takes when the code that
\* inserts it does not set it
DefaultAutoRenew == TRUE

\* Subscription(user_id=..., plan=FREE, status=ACTIVE): the lazily created row
FreeRow(user_id, t) ==
  [ user |-> user_id, plan |-> "FREE", billing_cycle |-> "NONE", status |-> "ACTIVE",
    start_date |-> t, end_date |-> NoDate, auto_renew |-> DefaultAutoRenew,
    payment_provider |-> "NONE", payment_token |-> "NONE", origin |-> 0 ]

\* Subscription(...) as verify_and_activate_subscription inserts it for the
\* transaction of reference r (origin records r: which payment inserted the row)
PaidRow(tx, r, t) ==
  [ user |-> tx.user, plan |-> tx.plan, billing_cycle |-> tx.billing_cycle,
    status |-> "ACTIVE", start_date |-> t,
    end_date |-> calculate_end_date(tx.billing_cycle, t), auto_renew |-> DefaultAutoRenew,
    payment_provider |-> tx.provider, payment_token |-> "NONE", origin |-> r ]

\* the UPDATE the session flushes for a row it loaded as `was`: the attributes
\* assigned in the upgrade branch, each written only when its value differs
\* from the loaded one (status is assigned ACTIVE, which it was when loaded)
UpgradeInPlace(row, was, tx, t) ==
  [ row EXCEPT
      !.plan = IF tx.plan # was.plan THEN tx.plan ELSE @,
      !.billing_cycle = IF tx.billing_cycle # was.billing_cycle THEN tx.billing_cycle ELSE @,
      !.start_date = t,
      !.end_date = calculate_end_date(tx.billing_cycle, t),
      !.payment_provider = IF tx.provider # was.payment_provider THEN tx.provider ELSE @ ]

\* PaymentTransaction(...) as initialize_payment writes it
PendingRow(user_id, plan, billing_cycle, provider) ==
  [ user |-> user_id, subscription_id |-> NoSub,
    amount |-> get_plan_amount(plan, billing_cycle), provider |-> provider,
    status |-> "PENDING", plan |-> plan, billing_cycle |-> billing_cycle,
    external_reference |-> "NONE", completed_at |-> NoDate, metadata |-> {} ]

NoResult == [ status |-> "NONE", plan |-> "NONE", billing_cycle |-> "NONE", message |-> "NONE" ]
\* nothing was sent out in the step just taken
Quiet == [ kind |-> "none", slot |-> "none", reference |-> 0, code |-> 0, result |-> NoResult ]
NoHeld == [ id |-> NoSub, plan |-> "NONE", billing_cycle |-> "NONE", payment_provider |-> "NONE" ]

InFlight(r) == { p \in Slots : pc[p] # "idle" /\ ref[p] = r }
AllIdle == (\A p \in Slots : pc[p] = "idle") /\ (\A k \in Crons : cron[k].pc = "idle")
HooksIdle == \A p \in Hooks : pc[p] = "idle"

\* a run of the renewal job that is not under way
IdleCron ==
  [ pc |-> "idle", todo |-> {}, picked |-> {}, tried |-> << >>, processed |-> 0,
    success |-> 0, failed |-> 0, dirty |-> {}, was |-> << >> ]


\* ------------------------------------------------------------- gateway

\* provider.verify_payment(reference): the PaymentVerifyResult values the three
\* adapters can build, given the gateway's status of the payment.  Every adapter
\* turns an exception (timeout, transport) into success=False, status "error";
\* Stripe looks the reference up in Session.list(limit=1) and answers
\* "not_found" when the session is not the one listed.  The result carries the
\* amount the gateway collected: the price of the row ("full") or less ("short").
verify_payment(provider, gw) ==
  LET Res(ok, st, msg) ==
        [ success |-> ok, status |-> st, error_message |-> msg,
          amount |-> IF ~ok THEN "NONE" ELSE IF gw = "short" THEN "short" ELSE "full" ]
      fault == { Res(FALSE, "error", "exception") }
      lost == IF provider = "STRIPE"
                THEN { Res(FALSE, "not_found", "Session not found") } ELSE {}
  IN  CASE gw \in {"paid", "short"} -> { Res(TRUE, "success", "NONE") } \cup fault \cup lost
        [] gw = "unpaid" ->
             { IF provider = "STRIPE"
                 THEN Res(FALSE, "pending", "Payment not yet completed")
                 ELSE Res(FALSE, "pending", "NONE") } \cup fault \cup lost
        [] OTHER ->
             { IF provider = "STRIPE"
                 THEN Res(FALSE, "not_found", "Session not found")
                 ELSE Res(FALSE, "failed", "Verification failed") } \cup fault

NoVerify ==
  [ success |-> FALSE, status |-> "NONE", error_message |-> "NONE", amount |-> "NONE" ]

\* --------------------------------------------------------- the handlers

\* what the endpoint that runs in slot p answers for a result of
\* verify_and_activate_subscription: verify_payment builds a
\* PaymentVerificationResponse, whose plan and billing_cycle are required, inside
\* its try block (a pydantic ValidationError is a ValueError: 404); a webhook
\* answers {"status": "success"} whatever the result
Answer(p, result) ==
  IF p = "verify" THEN (IF result.plan = "NONE" THEN 404 ELSE 200) ELSE 200

\* raise ValueError("Transaction not found"): 404 from verify_payment, swallowed
\* (pass) by the webhooks
NotFound(p) == IF p = "verify" THEN 404 ELSE 200

CachedResult(tx) ==
  [ status |-> tx.status, plan |-> "NONE", billing_cycle |-> "NONE",
    message |-> "Transaction already processed" ]

SuccessResult(tx) ==
  [ status |-> "SUCCESS", plan |-> tx.plan, billing_cycle |-> tx.billing_cycle,
    message |-> "Subscription activated successfully" ]

FailedResult(res) ==
  [ status |-> "FAILED", plan |-> "NONE", billing_cycle |-> "NONE",
    message |-> IF res.error_message # "NONE" THEN res.error_message
                ELSE "Payment verification failed" ]

NotFoundResult ==
  [ status |-> "ERROR", plan |-> "NONE", billing_cycle |-> "NONE",
    message |-> "Transaction not found" ]

\* slot p's call for reference r returns `result` to its endpoint, which answers
Returns(p, r, result) ==
  /\ last' = [ kind |-> "answer", slot |-> p, reference |-> r,
               code |-> Answer(p, result), result |-> result ]
  /\ first' = IF first[r] = NoResult THEN [first EXCEPT ![r] = result] ELSE first

\* a variant that returns the stored outcome of SUCCESS rows only
AlreadyProcessed_SuccessOnly(tx) == tx.status = "SUCCESS"

\* the status test that decides whether verify_and_activate_subscription
\* returns the stored outcome
AlreadyProcessed(tx) == tx.status \in {"SUCCESS", "FAILED"}

\* verify_and_activate_subscription up to its first await on the gateway:
\* select the transaction; unknown -> ValueError; SUCCESS/FAILED -> the stored
\* status is returned; PENDING -> go on to provider.verify_payment
VerifyBegin(p, r) ==
  /\ pc[p] = "idle"
  /\ UNCHANGED << now, txns, subs, gateway, secret, cron, vres, held, applied >>
  /\ IF r \notin Refs
       THEN /\ last' = [ kind |-> "answer", slot |-> p, reference |-> r,
                         code |-> NotFound(p), result |-> NotFoundResult ]
            /\ UNCHANGED << pc, ref, first >>
       ELSE IF AlreadyProcessed(txns[r])
              THEN /\ Returns(p, r, CachedResult(txns[r]))
                   /\ UNCHANGED << pc, ref >>
              ELSE /\ pc' = [pc EXCEPT ![p] = "verify"]
                   /\ ref' = [ref EXCEPT ![p] = r]
                   /\ last' = Quiet
                   /\ UNCHANGED first

\* result = await provider.verify_payment(reference)
VerifyCall(p) ==
  /\ pc[p] = "verify"
  /\ \E res \in verify_payment(txns[ref[p]].provider, gateway[ref[p]]) :
       vres' = [vres EXCEPT ![p] = res]
  /\ last' = [ kind |-> "gateway", slot |-> p, reference |-> ref[p], code |-> 0,
               result |-> NoResult ]
  /\ pc' = [pc EXCEPT ![p] = "verified"]
  /\ UNCHANGED << now, txns, subs, gateway, secret, cron, ref, held, first, applied >>

\* verify_result.success: subscription = await get_active_subscription(user_id).
\* Each request has its own session, and what a session has assigned is seen by
\* the others at its commit.  Whether a second session waits at this point for
\* the first one's commit (a flush before the query, a row lock) is decided by
\* the session setup and the database: the step may come before or after the
\* other request's commit.
VerifySelect(p) ==
  /\ pc[p] = "verified"
  /\ vres[p].success
  /\ LET sid == get_active_subscription(txns[ref[p]].user)
     IN  held' = [held EXCEPT ![p] =
                    IF sid = NoSub THEN NoHeld
                    ELSE [ id |-> sid, plan |-> subs[sid].plan,
                           billing_cycle |-> subs[sid].billing_cycle,
                           payment_provider |-> subs[sid].payment_provider ]]
  /\ pc' = [pc EXCEPT ![p] = "activate"]
  /\ last' = Quiet
  /\ UNCHANGED << now, txns, subs, gateway, secret, cron, ref, vres, first, applied >>

\* the transaction row as the success branch writes it
MarkSuccess(tx, sid, t) ==
  [ tx EXCEPT !.status = "SUCCESS", !.completed_at = t,
              !.external_reference = "ext",
              !.metadata = {"verification_response"},
              !.subscription_id = sid ]

\* a failure branch that keeps no reason
MarkFailed_NoReason(tx) == [ tx EXCEPT !.status = "FAILED" ]

\* the transaction row as the failure branches write it
MarkFailed(tx) ==
  [ tx EXCEPT !.status = "FAILED", !.metadata = {"error"} ]

\* the Subscription rows after the success branch: the loaded ACTIVE row is
\* upgraded in place, or, when none was found, a row is inserted
ActivateSubscription(rows, h, tx, r, t) ==
  IF h.id = NoSub
    THEN Append(rows, PaidRow(tx, r, t))
    ELSE [rows EXCEPT ![h.id] = UpgradeInPlace(@, h, tx, t)]

\* the success branch from the upgrade-or-create decision to db.commit()
VerifyActivate(p) ==
  /\ pc[p] = "activate"
  /\ LET r == ref[p]
         tx == txns[r]
         sid == IF held[p].id = NoSub THEN Len(subs) + 1 ELSE held[p].id
     IN  /\ held[p].id = NoSub => Len(subs) < MaxSubs
         /\ subs' = ActivateSubscription(subs, held[p], tx, r, now)
         /\ txns' = [txns EXCEPT ![r] = MarkSuccess(tx, sid, now)]
         /\ applied' = [applied EXCEPT ![r] = @ + 1]
         /\ Returns(p, r, SuccessResult(tx))
  /\ pc' = [pc EXCEPT ![p] = "idle"]
  /\ ref' = [ref EXCEPT ![p] = 0]
  /\ vres' = [vres EXCEPT ![p] = NoVerify]
  /\ held' = [held EXCEPT ![p] = NoHeld]
  /\ UNCHANGED << now, gateway, secret, cron >>

\* the failure branch: mark FAILED, commit, return the reason
VerifyFail(p) ==
  /\ pc[p] = "verified"
  /\ ~vres[p].success
  /\ LET r == ref[p]
     IN  /\ txns' = [txns EXCEPT ![r] = MarkFailed(@)]
         /\ Returns(p, r, FailedResult(vres[p]))
  /\ pc' = [pc EXCEPT ![p] = "idle"]
  /\ ref' = [ref EXCEPT ![p] = 0]
  /\ vres' = [vres EXCEPT ![p] = NoVerify]
  /\ UNCHANGED << now, subs, gateway, secret, cron, held, applied >>

\* ------------------------------------------------------------ webhooks

\* hmac.new(key, payload, sha512).hexdigest(): a keyed digest, one value per
\* (key, payload) pair
Hmac(key, payload) == << key, payload >>
\* request.headers.get("...-signature", "") of a request without the header
NoSignature == << >>

\* a variant that checks that the signature was made with the key, not what it signs
PaystackVerifySignature_KeyOnly(payload, signature) ==
  IF secret["PAYSTACK"] = "" THEN FALSE
  ELSE Len(signature) = 2 /\ signature[1] = secret["PAYSTACK"]

\* PaystackProvider.verify_webhook_signature
PaystackVerifySignature(payload, signature) ==
  IF secret["PAYSTACK"] = "" THEN FALSE
  ELSE signature = Hmac(secret["PAYSTACK"], payload)

\* OPayProvider.verify_webhook_signature
OPayVerifySignature(payload, signature) ==
  IF secret["OPAY"] = "" THEN FALSE
  ELSE signature = Hmac(secret["OPAY"], payload)

\* StripeProvider.verify_webhook_signature: stripe.Webhook.construct_event checks
\* the signed payload and then parses it; either failure is caught and gives False
StripeVerifySignature(payload, signature) ==
  IF secret["STRIPE"] = "" THEN FALSE
  ELSE signature = Hmac(secret["STRIPE"], payload) /\ payload.json

\* BasePaymentProvider.verify_webhook_signature, as each adapter implements it
verify_webhook_signature(provider, payload, signature) ==
  CASE provider = "PAYSTACK" -> PaystackVerifySignature(payload, signature)
    [] provider = "OPAY" -> OPayVerifySignature(payload, signature)
    [] OTHER -> StripeVerifySignature(payload, signature)

\* the test that guards paystack_webhook's 401
PaystackRejects(payload, signature) == ~PaystackVerifySignature(payload, signature)
\* the test that guards opay_webhook's 401
OPayRejects(payload, signature) ==
  signature # NoSignature /\ ~OPayVerifySignature(payload, signature)
\* the test that guards stripe_webhook's 401
StripeRejects(payload, signature) == ~StripeVerifySignature(payload, signature)

\* the event each handler takes as "payment succeeded"
PaystackEvent == "charge.success"
OPayEvent == "success"
StripeEvent == "checkout.session.completed"

\* a webhook that stops before verify_and_activate_subscription
HookAnswers(p, code) ==
  /\ last' = [ kind |-> "answer", slot |-> p, reference |-> 0, code |-> code,
               result |-> NoResult ]
  /\ UNCHANGED << now, txns, subs, gateway, secret, cron, pc, ref, vres, held, first, applied >>

\* a variant of paystack_webhook that verifies whatever the event type
paystack_webhook_AnyEvent(payload, signature) ==
  /\ HooksIdle
  /\ IF PaystackRejects(payload, signature) THEN HookAnswers("paystack", 401)
     ELSE IF ~payload.json THEN HookAnswers("paystack", 400)
     ELSE IF payload.reference # 0
       THEN VerifyBegin("paystack", payload.reference)
       ELSE HookAnswers("paystack", 200)

\* POST /payments/webhook/paystack
paystack_webhook(payload, signature) ==
  /\ HooksIdle
  /\ IF PaystackRejects(payload, signature) THEN HookAnswers("paystack", 401)
     ELSE IF ~payload.json THEN HookAnswers("paystack", 400)
     ELSE IF payload.event = PaystackEvent /\ payload.reference # 0
       THEN VerifyBegin("paystack", payload.reference)
       ELSE HookAnswers("paystack", 200)

\* POST /payments/webhook/opay
opay_webhook(payload, signature) ==
  /\ HooksIdle
  /\ IF OPayRejects(payload, signature) THEN HookAnswers("opay", 401)
     ELSE IF ~payload.json THEN HookAnswers("opay", 400)
     ELSE IF payload.reference # 0 /\ payload.event = OPayEvent
       THEN VerifyBegin("opay", payload.reference)
       ELSE HookAnswers("opay", 200)

\* POST /payments/webhook/stripe
stripe_webhook(payload, signature) ==
  /\ HooksIdle
  /\ IF StripeRejects(payload, signature) THEN HookAnswers("stripe", 401)
     ELSE IF ~payload.json THEN HookAnswers("stripe", 400)
     ELSE IF payload.event = StripeEvent /\ payload.reference # 0
       THEN VerifyBegin("stripe", payload.reference)
       ELSE HookAnswers("stripe", 200)

\* --------------------------------------------------- the other requests

\* a validation that lets every request through
Rejected_Never(plan, billing_cycle) == FALSE

\* the validation at the head of initialize_payment: raise ValueError for the
\* FREE plan and for an amount that is not positive
Rejected(plan, billing_cycle) ==
  plan = "FREE" \/ get_plan_amount(plan, billing_cycle) <= 0

\* what POST /payments/initialize answers: the reference and authorization URL,
\* or 400 for a ValueError of initialize_payment
InitAnswers(r, code) ==
  [ kind |-> "init", slot |-> "initialize", reference |-> r, code |-> code,
    result |-> NoResult ]

\* payment_service.initialize_payment; ok: whether the adapter's
\* initialize_payment returned success (it returns success=False for a refusal
\* of the gateway and for every exception, a timeout included).  The reference
\* is generated here and leaves the handler only with its answer, so no other
\* request works on the row between the handler's commits: one step.
initialize_payment(user_id, plan, billing_cycle, provider, ok) ==
  IF Rejected(plan, billing_cycle)
    THEN /\ last' = InitAnswers(0, 400)
         /\ UNCHANGED << now, txns, subs, gateway, secret, cron, pc, ref, vres, held, first,
                         applied >>
    ELSE /\ Len(txns) < MaxTxns
         /\ txns' = Append(txns,
              IF ok
                THEN [PendingRow(user_id, plan, billing_cycle, provider)
                        EXCEPT !.external_reference = "ext"]
                ELSE MarkFailed(PendingRow(user_id, plan, billing_cycle, provider)))
         /\ gateway' = Append(gateway, IF ok THEN "unpaid" ELSE "none")
         /\ first' = Append(first, NoResult)
         /\ applied' = Append(applied, 0)
         /\ last' = InitAnswers(Len(txns) + 1, IF ok THEN 200 ELSE 400)
         /\ UNCHANGED << now, subs, secret, cron, pc, ref, vres, held >>

\* the customer completes the checkout at the gateway
CustomerPays(r) ==
  /\ r \in Refs
  /\ gateway[r] = "unpaid"
  /\ gateway' = [gateway EXCEPT ![r] = "paid"]
  /\ last' = Quiet
  /\ UNCHANGED << now, txns, subs, secret, cron, pc, ref, vres, held, first, applied >>

\* the gateway collects less than the amount the checkout was opened for
CustomerUnderpays(r) ==
  /\ r \in Refs
  /\ gateway[r] = "unpaid"
  /\ gateway' = [gateway EXCEPT ![r] = "short"]
  /\ last' = Quiet
  /\ UNCHANGED << now, txns, subs, secret, cron, pc, ref, vres, held, first, applied >>

\* GET /subscriptions/current: payment_service.get_or_create_subscription
get_or_create_subscription(user_id) ==
  /\ get_active_subscription(user_id) = NoSub
  /\ Len(subs) < MaxSubs
  /\ subs' = Append(subs, FreeRow(user_id, now))
  /\ last' = Quiet
  /\ UNCHANGED << now, txns, gateway, secret, cron, pc, ref, vres, held, first, applied >>

\* the row as cancel_subscription writes it
MarkCancelled(row) == [ row EXCEPT !.status = "CANCELLED", !.auto_renew = FALSE ]

\* raise ValueError("No active subscription found" / "Cannot cancel free plan"):
\* the endpoint answers 400
CancelRefused ==
  [ kind |-> "refused", slot |-> "cancel", reference |-> 0, code |-> 400, result |-> NoResult ]

\* POST /subscriptions/cancel: payment_service.cancel_subscription
cancel_subscription(user_id) ==
  LET sid == get_active_subscription(user_id)
  IN  IF sid = NoSub \/ subs[sid].plan = "FREE"
        THEN /\ last' = CancelRefused
             /\ UNCHANGED << now, txns, subs, gateway, secret, cron, pc, ref, vres, held, first, applied >>
        ELSE /\ subs' = [subs EXCEPT ![sid] = MarkCancelled(@)]
             /\ last' = [ kind |-> "cancel", slot |-> "none", reference |-> sid, code |-> 200,
                          result |-> NoResult ]
             /\ UNCHANGED << now, txns, gateway, secret, cron, pc, ref, vres, held, first, applied >>

\* ------------------------------------------------------- access control

\* a gate that lets every plan in through the learning path
check_module_access_TrackForAll(user_id, is_free, price, in_track, plan, t) ==
  LET resolved == IF plan = "NONE" THEN get_user_plan(user_id, t) ELSE plan
  IN  IF resolved = "PRO" THEN TRUE
      ELSE IF price = 0 THEN TRUE
      ELSE IF is_free THEN TRUE
      ELSE in_track

\* access_control_service.check_module_access(user, module, course, db, plan):
\* is_free is module.is_free, price is course.price, in_track says whether the
\* user has a LearningPath whose track holds the course (looked up for FOCUSED
\* only), plan is the caller's pre-resolved plan or "NONE"
check_module_access(user_id, is_free, price, in_track, plan, t) ==
  LET resolved == IF plan = "NONE" THEN get_user_plan(user_id, t) ELSE plan
  IN  IF resolved = "PRO" THEN TRUE
      ELSE IF price = 0 THEN TRUE
      ELSE IF is_free THEN TRUE
      ELSE IF resolved = "FOCUSED" THEN in_track
      ELSE FALSE

\* the decision as the caller passes it on: unlocked (200) or locked (403)
AccessAnswers(user_id, is_free, price, in_track, plan, allowed) ==
  [ kind |-> "access", slot |-> "none", reference |-> 0,
    code |-> IF allowed THEN 200 ELSE 403, result |-> NoResult,
    user |-> user_id, is_free |-> is_free, price |-> price, in_track |-> in_track,
    plan |-> plan ]

\* a request for a module's content
CheckModuleAccess(user_id, is_free, price, in_track, plan) ==
  /\ last' = AccessAnswers(user_id, is_free, price, in_track, plan,
                           check_module_access(user_id, is_free, price, in_track, plan, now))
  /\ UNCHANGED << now, txns, subs, gateway, secret, cron, pc, ref, vres, held, first, applied >>

\* access_control_service.check_skills_access: FOCUSED and PRO only
check_skills_access(user_id, t) == get_user_plan(user_id, t) \in {"FOCUSED", "PRO"}

\* a request for the skills pages: the decision, and the row the plan was
\* resolved from
CheckSkillsAccess(user_id) ==
  /\ last' = [ kind |-> "skills", slot |-> "none",
               reference |-> get_best_valid_subscription(user_id, now),
               code |-> IF check_skills_access(user_id, now) THEN 200 ELSE 403,
               result |-> NoResult, user |-> user_id ]
  /\ UNCHANGED << now, txns, subs, gateway, secret, cron, pc, ref, vres, held, first, applied >>

\* ------------------------------------------------------ the renewal job

\* a WHERE clause that does not look at the status
Candidate_AnyStatus(s, t) ==
  /\ s.auto_renew
  /\ s.end_date # NoDate /\ s.end_date <= t
  /\ s.payment_token # "NONE"
  /\ s.plan # "FREE"

\* the WHERE clause of process_due_subscriptions, with now = t (a NULL end_date
\* or payment_token never satisfies it)
Candidate(s, t) ==
  /\ s.status \in {"ACTIVE", "EXPIRED"}
  /\ s.auto_renew
  /\ s.end_date # NoDate /\ s.end_date <= t
  /\ s.payment_token # "NONE"
  /\ s.plan # "FREE"

\* all_subscriptions: the ids the query returns
all_subscriptions(rows, t) == { i \in 1..Len(rows) : Candidate(rows[i], t) }

\* a sort key that looks at the age of the row only
SortKey_CreatedAtOnly(rows, i) == << 0, i >>

\* key=lambda s: (s.status == ACTIVE, s.created_at); created_at is the row's
\* position
SortKey(rows, i) == << IF rows[i].status = "ACTIVE" THEN 1 ELSE 0, i >>

\* tuple comparison of two sort keys
KeyLeq(a, b) == a[1] < b[1] \/ (a[1] = b[1] /\ a[2] <= b[2])

\* sorted(user_subs, key=..., reverse=True)[0]
best_sub(rows, user_subs) ==
  CHOOSE i \in user_subs : \A j \in user_subs : KeyLeq(SortKey(rows, j), SortKey(rows, i))

\* subscriptions_to_process: one row per user of subs_by_user
subscriptions_to_process(rows, t) ==
  LET found == all_subscriptions(rows, t)
      subs_by_user(u) == { i \in found : rows[i].user = u }
  IN  { best_sub(rows, subs_by_user(u)) : u \in { rows[i].user : i \in found } }

\* provider.charge_subscription(...): OPayProvider returns a PaymentInitResult
\* with success=False; PaystackProvider and StripeProvider define no such
\* method, the attribute lookup raises AttributeError
charge_subscription(provider) ==
  IF provider = "OPAY"
    THEN { [ raises |-> FALSE, success |-> FALSE, error_message |-> "not supported" ] }
    ELSE { [ raises |-> TRUE, success |-> FALSE, error_message |-> "AttributeError" ] }

\* PaymentTransaction(...) as renew_subscription records it for row sid
RenewalRow(s, sid, provider, result) ==
  [ user |-> s.user, subscription_id |-> sid,
    amount |-> get_plan_amount(s.plan, s.billing_cycle), provider |-> provider,
    status |-> IF result.success THEN "SUCCESS" ELSE "FAILED",
    plan |-> s.plan, billing_cycle |-> s.billing_cycle,
    external_reference |-> "NONE", completed_at |-> NoDate,
    metadata |-> {"renewal"} \cup (IF result.success THEN {} ELSE {"error"}) ]

\* what db.commit() writes of the provider defaults the session holds
\* (subscription.payment_provider = PaymentProvider.PAYSTACK on the rows in dirty)
Flush(rows, dirty) ==
  [ i \in 1..Len(rows) |->
      IF i \in dirty THEN [rows[i] EXCEPT !.payment_provider = "PAYSTACK"] ELSE rows[i] ]

\* the success branch of renew_subscription: a new period from now
Extend(row, t) ==
  [ row EXCEPT !.end_date = calculate_end_date(row.billing_cycle, t), !.status = "ACTIVE" ]

\* an except branch that does not count the failure
Caught_Uncounted(c, i) ==
  [ c EXCEPT !.todo = @ \ {i}, !.tried = Append(@, i), !.processed = @ + 1 ]

\* the loop of process_due_subscriptions when renew_subscription raised:
\* except Exception: results["failed"] += 1, and on to the next row
Caught(c, i) ==
  [ c EXCEPT !.todo = @ \ {i}, !.tried = Append(@, i), !.processed = @ + 1,
             !.failed = @ + 1 ]

\* the loop of process_due_subscriptions when renew_subscription returned
Returned(c, i, success) ==
  [ c EXCEPT !.todo = @ \ {i}, !.tried = Append(@, i), !.processed = @ + 1,
             !.success = IF success THEN @ + 1 ELSE @,
             !.failed = IF success THEN @ ELSE @ + 1,
             !.dirty = {} ]

\* POST /cron/renew-subscriptions with a wrong or missing X-Cron-Secret
CronForbidden(k) ==
  /\ cron[k].pc = "idle"
  /\ last' = [ kind |-> "cron", slot |-> k, reference |-> 0, code |-> 403, result |-> NoResult ]
  /\ UNCHANGED << now, txns, subs, gateway, secret, cron, pc, ref, vres, held, first, applied >>

\* POST /cron/renew-subscriptions: process_due_subscriptions up to the loop.
\* A run that starts has room in the ledger for one row per user.
CronBegin(k) ==
  /\ cron[k].pc = "idle"
  /\ Len(txns) + Cardinality(Users) <= MaxLedger
  /\ LET chosen == subscriptions_to_process(subs, now)
     IN  cron' = [cron EXCEPT ![k] =
                    [ IdleCron EXCEPT !.pc = "run", !.todo = chosen, !.picked = chosen,
                                      !.was = subs ]]
  /\ last' = [ kind |-> "select", slot |-> k, reference |-> 0, code |-> 0, result |-> NoResult ]
  /\ UNCHANGED << now, txns, subs, gateway, secret, pc, ref, vres, held, first, applied >>

\* one pass of the loop: renew_subscription(sub, sub.user, db) for the row i of
\* subscriptions_to_process, in the order the query returned the rows
renew_subscription(k, i) ==
  /\ cron[k].pc = "run"
  /\ i \in cron[k].todo
  /\ LET s == subs[i]
         defaulted == s.payment_provider = "NONE"
         provider == IF defaulted THEN "PAYSTACK" ELSE s.payment_provider
         dirty == IF defaulted THEN cron[k].dirty \cup {i} ELSE cron[k].dirty
     IN  \E result \in charge_subscription(provider) :
           IF result.raises
             THEN /\ cron' = [cron EXCEPT ![k] = [Caught(@, i) EXCEPT !.dirty = dirty]]
                  /\ UNCHANGED << txns, subs, gateway, first, applied >>
             ELSE /\ txns' = Append(txns, RenewalRow(s, i, provider, result))
                  /\ gateway' = Append(gateway, "none")
                  /\ first' = Append(first, NoResult)
                  /\ applied' = Append(applied, 0)
                  /\ subs' = IF result.success
                               THEN [Flush(subs, dirty) EXCEPT ![i] = Extend(@, now)]
                               ELSE Flush(subs, dirty)
                  /\ cron' = [cron EXCEPT ![k] = Returned(@, i, result.success)]
  /\ last' = [ kind |-> "renew", slot |-> k, reference |-> i, code |-> 0, result |-> NoResult ]
  /\ UNCHANGED << now, secret, pc, ref, vres, held >>

\* return results: the endpoint answers with the counts and the request's
\* session is closed.  Whether closing it writes a provider default that no
\* commit of the run has written is decided by the session setup.
CronEnd(k) ==
  /\ cron[k].pc = "run"
  /\ cron[k].todo = {}
  /\ subs' \in { subs, Flush(subs, cron[k].dirty) }
  /\ cron' = [cron EXCEPT ![k].pc = "idle", ![k].dirty = {}]
  /\ last' = [ kind |-> "cron", slot |-> k, reference |-> 0, code |-> 200, result |-> NoResult ]
  /\ UNCHANGED << now, txns, gateway, secret, pc, ref, vres, held, first, applied >>

\* days pass between requests
Tick(d) ==
  /\ AllIdle
  /\ now + d <= MaxNow
  /\ now' = now + d
  /\ last' = Quiet
  /\ UNCHANGED << txns, subs, gateway, secret, cron, pc, ref, vres, held, first, applied >>

\* ------------------------------------------------------- specification

Init ==
  /\ now = 1
  /\ txns = << >>
  /\ subs = << >>
  /\ gateway = << >>
  /\ secret = [ p \in Providers |-> "sk" ]
  /\ pc = [ p \in Slots |-> "idle" ]
  /\ ref = [ p \in Slots |-> 0 ]
  /\ vres = [ p \in Slots |-> NoVerify ]
  /\ held = [ p \in Slots |-> NoHeld ]
  /\ last = Quiet
  /\ first = << >>
  /\ applied = << >>
  /\ cron = [ k \in Crons |-> IdleCron ]

Initialize ==
  \E o \in Offers, ok \in BOOLEAN : initialize_payment(o[1], o[2], o[3], o[4], ok)
PollVerify == \E r \in 1..(Len(txns) + 1) : VerifyBegin("verify", r)
\* the gateway delivers its payment-succeeded event for a payment it holds, to
\* the endpoint of the provider the payment was initialized with
Delivery(event, r) == [ json |-> TRUE, event |-> event, reference |-> r ]
GatewayDelivers ==
  \E r \in Refs :
    /\ gateway[r] # "none"
    /\ CASE txns[r].provider = "PAYSTACK" ->
              paystack_webhook(Delivery(PaystackEvent, r),
                               Hmac(secret["PAYSTACK"], Delivery(PaystackEvent, r)))
         [] txns[r].provider = "OPAY" ->
              opay_webhook(Delivery(OPayEvent, r),
                           Hmac(secret["OPAY"], Delivery(OPayEvent, r)))
         [] OTHER ->
              stripe_webhook(Delivery(StripeEvent, r),
                             Hmac(secret["STRIPE"], Delivery(StripeEvent, r)))
GatewayCall == \E p \in Slots : VerifyCall(p)
SelectSubscription == \E p \in Slots : VerifySelect(p)
Activate == \E p \in Slots : VerifyActivate(p)
Fail == \E p \in Slots : VerifyFail(p)
Pay == \E r \in Refs : CustomerPays(r)
Underpay == \E r \in Refs : CustomerUnderpays(r)
GetCurrent == \E u \in Users : get_or_create_subscription(u)
Cancel == \E u \in Users : cancel_subscription(u)
Clock == \E d \in TickSteps : Tick(d)
RenewForbidden == \E k \in Crons : CronForbidden(k)
RenewBegin == \E k \in Crons : CronBegin(k)
RenewOne == \E k \in Crons : \E i \in cron[k].todo : renew_subscription(k, i)
RenewEnd == \E k \in Crons : CronEnd(k)

\* The application: every request may arrive at any time.
Next ==
  \/ Initialize
  \/ PollVerify
  \/ GatewayDelivers
  \/ GatewayCall
  \/ SelectSubscription
  \/ Activate
  \/ Fail
  \/ Pay
  \/ GetCurrent
  \/ Cancel
  \/ Clock
  \/ Underpay
  \/ RenewForbidden
  \/ RenewBegin
  \/ RenewOne
  \/ RenewEnd

Spec == Init /\ [][Next]_vars

\* Requests that do not overlap: a request arrives when no other is being served.
SeqInitialize == AllIdle /\ Initialize
SeqPollVerify == AllIdle /\ PollVerify
SeqGatewayDelivers == AllIdle /\ GatewayDelivers
SeqGetCurrent == AllIdle /\ GetCurrent
SeqCancel == AllIdle /\ Cancel

NextSeq ==
  \/ SeqInitialize
  \/ SeqPollVerify
  \/ SeqGatewayDelivers
  \/ GatewayCall
  \/ SelectSubscription
  \/ Activate
  \/ Fail
  \/ Pay
  \/ SeqGetCurrent
  \/ SeqCancel
  \/ Clock

SpecSeq == Init /\ [][NextSeq]_vars

\* Requests that do not overlap, for payments the gateway collected in full or
\* in part.
NextShort ==
  \/ SeqInitialize
  \/ SeqPollVerify
  \/ SeqGatewayDelivers
  \/ GatewayCall
  \/ SelectSubscription
  \/ Activate
  \/ Fail
  \/ Pay
  \/ Underpay

SpecShort == Init /\ [][NextShort]_vars

\* Checkout only: any user asks for any plan, cycle and provider, the adapter
\* call succeeds or not, customers pay at the gateway, users look at their
\* subscription.
Plans == {"FREE", "FOCUSED", "PRO"}
Cycles == {"MONTHLY", "YEARLY"}
InitializeAny ==
  \E u \in Users, plan \in Plans, billing_cycle \in Cycles, provider \in Providers,
     ok \in BOOLEAN :
    initialize_payment(u, plan, billing_cycle, provider, ok)

NextInit ==
  \/ InitializeAny
  \/ Pay
  \/ GetCurrent

SpecInit == Init /\ [][NextInit]_vars

\* The renewal job over a table that holds rows from before: paid rows with a
\* stored payment_token, rows whose status was set to EXPIRED, rows without a
\* payment_provider.  A due row ended on day 1, a row not yet due ends on day 21.
DueRow(u, status, provider) ==
  [ user |-> u, plan |-> "FOCUSED", billing_cycle |-> "MONTHLY", status |-> status,
    start_date |-> 1 - DaysMonthly, end_date |-> 1, auto_renew |-> TRUE,
    payment_provider |-> provider, payment_token |-> "tok", origin |-> 0 ]
LegacyRows ==
  { DueRow(u, st, p) : u \in Users, st \in {"ACTIVE", "EXPIRED"},
                       p \in {"NONE", "PAYSTACK", "OPAY"} }
  \cup { DueRow(u, "CANCELLED", "OPAY") : u \in Users }
  \cup { [DueRow(u, "ACTIVE", "OPAY") EXCEPT !.start_date = 21 - DaysMonthly, !.end_date = 21] :
           u \in Users }
  \cup { [DueRow("u1", "ACTIVE", "OPAY") EXCEPT !.auto_renew = FALSE],
         [DueRow("u1", "ACTIVE", "OPAY") EXCEPT !.payment_token = "NONE"],
         [DueRow("u2", "ACTIVE", "OPAY") EXCEPT !.plan = "PRO", !.billing_cycle = "YEARLY",
                                                !.start_date = 1 - DaysYearly],
         [FreeRow("u2", 1) EXCEPT !.payment_token = "tok"] }
Tables == UNION { [ 1..n -> LegacyRows ] : n \in 0..MaxSubs }

InitRenew ==
  /\ subs \in Tables
  /\ now = 1
  /\ txns = << >>
  /\ gateway = << >>
  /\ secret = [ p \in Providers |-> "sk" ]
  /\ pc = [ p \in Slots |-> "idle" ]
  /\ ref = [ p \in Slots |-> 0 ]
  /\ vres = [ p \in Slots |-> NoVerify ]
  /\ held = [ p \in Slots |-> NoHeld ]
  /\ last = Quiet
  /\ first = << >>
  /\ applied = << >>
  /\ cron = [ k \in Crons |-> IdleCron ]

\* runs of the job that do not overlap
SeqRenewForbidden == AllIdle /\ CronForbidden("c1")
SeqRenewBegin == AllIdle /\ CronBegin("c1")

NextRenew ==
  \/ SeqRenewForbidden
  \/ SeqRenewBegin
  \/ RenewOne
  \/ RenewEnd
  \/ Clock

SpecRenew == InitRenew /\ [][NextRenew]_vars

\* The renewal job and the users' cancel requests, over tables of two rows.
ShortTables == UNION { [ 1..n -> LegacyRows ] : n \in 0..2 }

InitDue ==
  /\ subs \in ShortTables
  /\ now = 1
  /\ txns = << >>
  /\ gateway = << >>
  /\ secret = [ p \in Providers |-> "sk" ]
  /\ pc = [ p \in Slots |-> "idle" ]
  /\ ref = [ p \in Slots |-> 0 ]
  /\ vres = [ p \in Slots |-> NoVerify ]
  /\ held = [ p \in Slots |-> NoHeld ]
  /\ last = Quiet
  /\ first = << >>
  /\ applied = << >>
  /\ cron = [ k \in Crons |-> IdleCron ]

NextDue ==
  \/ SeqRenewForbidden
  \/ SeqRenewBegin
  \/ RenewOne
  \/ RenewEnd
  \/ SeqCancel
  \/ Clock

SpecDue == InitDue /\ [][NextDue]_vars

\* Runs of the renewal job that may overlap: the endpoint is called again while
\* a run is under way.
NextOverlap ==
  \/ RenewForbidden
  \/ RenewBegin
  \/ RenewOne
  \/ RenewEnd
  \/ Clock

SpecOverlap == InitDue /\ [][NextOverlap]_vars

\* The access gate over users who hold no row, a FREE row, paid rows, a
\* cancelled PRO row that ends on day 21; courses that cost nothing or 500.
CoursePrices == {0, 500}
PassedPlans == {"NONE", "FREE", "FOCUSED", "PRO"}
HeldRow(u, plan, status, end_date) ==
  [ user |-> u, plan |-> plan, billing_cycle |-> "MONTHLY", status |-> status,
    start_date |-> end_date - DaysMonthly, end_date |-> end_date,
    auto_renew |-> status = "ACTIVE",
    payment_provider |-> "PAYSTACK", payment_token |-> "NONE", origin |-> 0 ]
AccessRows ==
  { FreeRow(u, 1) : u \in Users }
  \cup { HeldRow(u, "FOCUSED", "ACTIVE", 31) : u \in Users }
  \cup { HeldRow(u, "PRO", "ACTIVE", 31) : u \in Users }
  \cup { HeldRow(u, "PRO", "CANCELLED", 21) : u \in Users }
AccessTables == UNION { [ 1..n -> AccessRows ] : n \in 0..2 }

InitAccess ==
  /\ subs \in AccessTables
  /\ now = 1
  /\ txns = << >>
  /\ gateway = << >>
  /\ secret = [ p \in Providers |-> "sk" ]
  /\ pc = [ p \in Slots |-> "idle" ]
  /\ ref = [ p \in Slots |-> 0 ]
  /\ vres = [ p \in Slots |-> NoVerify ]
  /\ held = [ p \in Slots |-> NoHeld ]
  /\ last = Quiet
  /\ first = << >>
  /\ applied = << >>
  /\ cron = [ k \in Crons |-> IdleCron ]

OpenModule ==
  \E u \in Users, is_free \in BOOLEAN, price \in CoursePrices, in_track \in BOOLEAN,
     plan \in PassedPlans :
    CheckModuleAccess(u, is_free, price, in_track, plan)

NextAccess ==
  \/ OpenModule
  \/ Clock

SpecAccess == InitAccess /\ [][NextAccess]_vars

\* Plan resolution over tables of up to three rows: FREE rows, paid rows that
\* are ACTIVE (also past their end_date), cancelled rows that end on day 1 or
\* on day 21.
PlanRows ==
  { FreeRow(u, 1) : u \in Users }
  \cup { HeldRow(u, plan, "ACTIVE", 31) : u \in Users, plan \in {"FOCUSED", "PRO"} }
  \cup { HeldRow(u, plan, "CANCELLED", 21) : u \in Users, plan \in {"FOCUSED", "PRO"} }
  \cup { HeldRow(u, plan, "CANCELLED", 1) : u \in Users, plan \in {"FOCUSED", "PRO"} }
  \cup { HeldRow(u, "FOCUSED", "ACTIVE", 1) : u \in Users }
PlanTables == UNION { [ 1..n -> PlanRows ] : n \in 0..MaxSubs }

InitPlan ==
  /\ subs \in PlanTables
  /\ now = 1
  /\ txns = << >>
  /\ gateway = << >>
  /\ secret = [ p \in Providers |-> "sk" ]
  /\ pc = [ p \in Slots |-> "idle" ]
  /\ ref = [ p \in Slots |-> 0 ]
  /\ vres = [ p \in Slots |-> NoVerify ]
  /\ held = [ p \in Slots |-> NoHeld ]
  /\ last = Quiet
  /\ first = << >>
  /\ applied = << >>
  /\ cron = [ k \in Crons |-> IdleCron ]

OpenSkills == \E u \in Users : CheckSkillsAccess(u)

NextPlan ==
  \/ OpenSkills
  \/ Clock

SpecPlan == InitPlan /\ [][NextPlan]_vars

\* A manual verify and a webhook delivery racing, within one day, for users who
\* may have looked at their subscription before.
NextRace ==
  \/ Initialize
  \/ PollVerify
  \/ GatewayDelivers
  \/ GatewayCall
  \/ SelectSubscription
  \/ Activate
  \/ Fail
  \/ Pay
  \/ GetCurrent

SpecRace == Init /\ [][NextRace]_vars

\* One payment the customer has made, its manual verify racing with the
\* gateway's webhook, and the user's cancel requests afterwards.
InitPaid ==
  /\ now = 1
  /\ \E o \in { x \in Offers : x[2] # "FREE" } :
       txns = << [PendingRow(o[1], o[2], o[3], o[4]) EXCEPT !.external_reference = "ext"] >>
  /\ subs = << >>
  /\ gateway = << "paid" >>
  /\ secret = [ p \in Providers |-> "sk" ]
  /\ pc = [ p \in Slots |-> "idle" ]
  /\ ref = [ p \in Slots |-> 0 ]
  /\ vres = [ p \in Slots |-> NoVerify ]
  /\ held = [ p \in Slots |-> NoHeld ]
  /\ last = Quiet
  /\ first = << NoResult >>
  /\ applied = << 0 >>
  /\ cron = [ k \in Crons |-> IdleCron ]

NextPaid ==
  \/ PollVerify
  \/ GatewayDelivers
  \/ GatewayCall
  \/ SelectSubscription
  \/ Activate
  \/ Fail
  \/ SeqCancel
  \/ Clock

SpecPaid == InitPaid /\ [][NextPaid]_vars

\* The webhook endpoints under arbitrary posts: any body, any signature header,
\* with each provider's secret configured or not.
\* request bodies: bytes that do not parse as JSON, or an event with its type
\* (OPay: its data.status) and the reference it carries (0: none,
\* Len(txns)+1: one the ledger does not hold)
Bodies(event) ==
  { [ json |-> FALSE, event |-> "other", reference |-> 0 ] } \cup
  [ json : {TRUE}, event : {event, "other"}, reference : 0..(Len(txns) + 1) ]

\* signature headers a sender may put on a body: none, the provider's, one made
\* with another key, the provider's signature of another body
Signatures(provider, payload) ==
  { NoSignature,
    Hmac(secret[provider], payload),
    Hmac("attacker", payload),
    Hmac(secret[provider], [payload EXCEPT !.reference = (@ + 1) % (Len(txns) + 2)]) }

PaystackWebhook ==
  \E b \in Bodies(PaystackEvent) : \E s \in Signatures("PAYSTACK", b) : paystack_webhook(b, s)
OPayWebhook ==
  \E b \in Bodies(OPayEvent) : \E s \in Signatures("OPAY", b) : opay_webhook(b, s)
StripeWebhook ==
  \E b \in Bodies(StripeEvent) : \E s \in Signatures("STRIPE", b) : stripe_webhook(b, s)

InitHook ==
  /\ secret \in { [ p \in Providers |-> k ] : k \in {"", "sk"} }
  /\ now = 1
  /\ txns = << >>
  /\ subs = << >>
  /\ gateway = << >>
  /\ pc = [ p \in Slots |-> "idle" ]
  /\ ref = [ p \in Slots |-> 0 ]
  /\ vres = [ p \in Slots |-> NoVerify ]
  /\ held = [ p \in Slots |-> NoHeld ]
  /\ last = Quiet
  /\ first = << >>
  /\ applied = << >>
  /\ cron = [ k \in Crons |-> IdleCron ]

NextHook ==
  \/ Initialize
  \/ Pay
  \/ PaystackWebhook
  \/ OPayWebhook
  \/ StripeWebhook
  \/ GatewayCall
  \/ SelectSubscription
  \/ Activate
  \/ Fail

SpecHook == InitHook /\ [][NextHook]_vars

\* ------------------------------------------------------------- claims

\* the activation of reference r is committed in this step
Activated(r) == applied'[r] = applied[r] + 1
\* the Subscription rows inserted for reference r
MintedFor(r) == { i \in SubIds : subs[i].origin = r }
\* this step belongs to slot p's verify_and_activate call for reference r
CallStep(p, r) ==
  \/ pc'[p] # pc[p] /\ (ref[p] = r \/ ref'[p] = r)
  \/ last'.kind = "answer" /\ last'.slot = p /\ last'.reference = r
\* the user's rows that count at time t, other than row i
OtherValid(i, t) ==
  { j \in SubIds \ {i} : subs[j].user = subs[i].user /\ IsValidAt(subs[j], t) }

\* C1: when a manual verify and a webhook delivery work on the same PENDING
\* reference and the gateway reports success to both, at most one activation is
\* applied for the payment and at most one Subscription row is inserted for it.
C1_AtMostOneActivation ==
  \A r \in Refs : applied[r] <= 1 /\ Cardinality(MintedFor(r)) <= 1

\* C2: of calls of verify_and_activate on one reference that do not overlap, only
\* the first contacts the gateway or changes a row: a step of a call made after
\* a call for the reference has returned leaves every PaymentTransaction and
\* Subscription row as it is, applies no activation and does not call the gateway.
C2_LaterCallsChangeNothing ==
  [][ \A r \in Refs : \A p \in Slots :
        (first[r] # NoResult /\ CallStep(p, r)) =>
          /\ txns' = txns
          /\ subs' = subs
          /\ applied' = applied
          /\ last'.kind # "gateway" ]_vars

\* C2 witness: a second call has returned for a reference whose first call
\* activated the subscription.
C2_Witness ==
  /\ last.kind = "answer"
  /\ last.reference \in Refs
  /\ last.result.message = "Transaction already processed"
  /\ first[last.reference].status = "SUCCESS"
  /\ applied[last.reference] = 1

\* C3: every call of verify_and_activate on a reference returns what the first
\* call on it returned: the same status, plan, billing_cycle and message.
C3_SecondOutcomeIdentical ==
  (last.kind = "answer" /\ last.reference \in Refs) =>
    last.result = first[last.reference]

\* C4: a PaymentTransaction row that is SUCCESS or FAILED is never changed again.
C4_TerminalRowsFrozen ==
  [][ \A r \in Refs :
        txns[r].status \in {"SUCCESS", "FAILED"} => txns'[r] = txns[r] ]_vars

\* C5: after a successful upgrade exactly one Subscription row of the user is
\* ACTIVE and every row of the user that was ACTIVE before it is CANCELLED.
C5_ExactlyOneActiveAfterUpgrade ==
  [][ \A r \in Refs :
        Activated(r) =>
          LET u == txns[r].user
          IN  /\ Cardinality({ i \in 1..Len(subs') :
                     subs'[i].user = u /\ subs'[i].status = "ACTIVE" }) = 1
              /\ \A i \in SubIds :
                   (subs[i].user = u /\ subs[i].status = "ACTIVE") =>
                     subs'[i].status = "CANCELLED" ]_vars

\* C6: a verification of a PENDING transaction that the gateway reports paid
\* makes the transaction SUCCESS and links it to a newly inserted Subscription
\* of its user: ACTIVE, with the transaction's plan and billing_cycle,
\* start_date = now, end_date = now + 30 (MONTHLY) or + 365 days (YEARLY),
\* auto_renew = true.
C6_ActivationInsertsLinkedRow ==
  [][ \A r \in Refs :
        (Activated(r) /\ txns[r].status = "PENDING") =>
          LET tx == txns[r]
              sid == txns'[r].subscription_id
          IN  /\ txns'[r].status = "SUCCESS"
              /\ sid = Len(subs) + 1
              /\ Len(subs') = Len(subs) + 1
              /\ subs'[sid].user = tx.user
              /\ subs'[sid].status = "ACTIVE"
              /\ subs'[sid].plan = tx.plan
              /\ subs'[sid].billing_cycle = tx.billing_cycle
              /\ subs'[sid].start_date = now
              /\ subs'[sid].end_date =
                   now + (IF tx.billing_cycle = "MONTHLY" THEN DaysMonthly ELSE DaysYearly)
              /\ subs'[sid].auto_renew = TRUE ]_vars

\* C7: Subscription history is append-only: an activation leaves the plan,
\* billing_cycle, start_date and end_date of every existing row as they are and
\* adds exactly one row.
C7_HistoryAppendOnly ==
  [][ \A r \in Refs :
        Activated(r) =>
          /\ Len(subs') = Len(subs) + 1
          /\ \A i \in SubIds :
               /\ subs'[i].plan = subs[i].plan
               /\ subs'[i].billing_cycle = subs[i].billing_cycle
               /\ subs'[i].start_date = subs[i].start_date
               /\ subs'[i].end_date = subs[i].end_date ]_vars

GraceOf(i) ==
  LET u == subs[i].user
      plan == get_user_plan(u, now)
  IN  /\ subs[i].auto_renew = FALSE
      /\ now < subs[i].end_date =>
           \/ plan = subs[i].plan
           \/ \E j \in OtherValid(i, now) : PRIORITY(subs[j].plan) > PRIORITY(subs[i].plan)
      /\ now >= subs[i].end_date =>
           /\ get_best_valid_subscription(u, now) # i
           /\ plan = subs[i].plan => \E j \in OtherValid(i, now) : subs[j].plan = subs[i].plan

Signed(provider, payload, signature) ==
  secret[provider] # "" /\ signature = Hmac(secret[provider], payload)
\* the request was turned away with `code` and nothing else happened
TurnedAway(code) ==
  /\ last'.kind = "answer" /\ last'.slot \in Hooks /\ last'.code = code
  /\ txns' = txns /\ subs' = subs /\ pc' = pc /\ applied' = applied

\* the step was taken by the endpoint that runs in slot p
StepAt(p) == last'.slot = p \/ pc'[p] # pc[p]

\* C9: on each webhook endpoint a request whose signature header is absent,
\* empty or not the signature of the raw body is answered 401, does not reach
\* verify_and_activate and changes no row.
C9_UnsignedRejected ==
  [][ /\ StepAt("paystack") =>
           \A b \in Bodies(PaystackEvent) : \A s \in Signatures("PAYSTACK", b) :
             (~Signed("PAYSTACK", b, s) /\ paystack_webhook(b, s)) => TurnedAway(401)
      /\ StepAt("opay") =>
           \A b \in Bodies(OPayEvent) : \A s \in Signatures("OPAY", b) :
             (~Signed("OPAY", b, s) /\ opay_webhook(b, s)) => TurnedAway(401)
      /\ StepAt("stripe") =>
           \A b \in Bodies(StripeEvent) : \A s \in Signatures("STRIPE", b) :
             (~Signed("STRIPE", b, s) /\ stripe_webhook(b, s)) => TurnedAway(401) ]_vars

\* the event is not the payment-succeeded one, or names no transaction of the ledger
NoOp(payload, event) ==
  payload.json /\ (payload.event # event \/ payload.reference \notin Refs)

\* C10: a validly signed webhook whose event is not the provider's
\* payment-succeeded event, or whose reference is not in the ledger, is answered
\* 200 and changes no row (and starts no verification).
C10_SignedNoOpAcknowledged ==
  [][ /\ StepAt("paystack") =>
           \A b \in Bodies(PaystackEvent) :
             (NoOp(b, PaystackEvent) /\ Signed("PAYSTACK", b, Hmac(secret["PAYSTACK"], b))
                /\ paystack_webhook(b, Hmac(secret["PAYSTACK"], b))) => TurnedAway(200)
      /\ StepAt("opay") =>
           \A b \in Bodies(OPayEvent) :
             (NoOp(b, OPayEvent) /\ Signed("OPAY", b, Hmac(secret["OPAY"], b))
                /\ opay_webhook(b, Hmac(secret["OPAY"], b))) => TurnedAway(200)
      /\ StepAt("stripe") =>
           \A b \in Bodies(StripeEvent) :
             (NoOp(b, StripeEvent) /\ Signed("STRIPE", b, Hmac(secret["STRIPE"], b))
                /\ stripe_webhook(b, Hmac(secret["STRIPE"], b))) => TurnedAway(200) ]_vars

\* C10 witness: a signed payment-succeeded event for a reference the ledger does
\* not hold was acknowledged, with a PENDING transaction in the ledger.
C10_Witness ==
  /\ secret["PAYSTACK"] # ""
  /\ last.kind = "answer" /\ last.slot = "paystack" /\ last.code = 200
  /\ last.result = NotFoundResult
  /\ \E r \in Refs : txns[r].status = "PENDING"

\* the bodies a provider's endpoint may be sent
BodiesOf(provider) ==
  Bodies(CASE provider = "PAYSTACK" -> PaystackEvent
           [] provider = "OPAY" -> OPayEvent
           [] OTHER -> StripeEvent)
\* the signature header the provider puts on body b
Sign(provider, b) == Hmac(secret[provider], b)
\* a signature made for body b passes for no other body, and nothing passes when
\* no secret is configured
TamperProof(provider) ==
  IF secret[provider] = ""
    THEN \A b \in BodiesOf(provider) : \A s \in Signatures(provider, b) :
           ~verify_webhook_signature(provider, b, s)
    ELSE \A b \in BodiesOf(provider) : \A b2 \in BodiesOf(provider) \ {b} :
           ~verify_webhook_signature(provider, b2, Sign(provider, b))

ConfiguredPrice(plan, billing_cycle) ==
  CASE plan = "FOCUSED" /\ billing_cycle = "MONTHLY" -> 700
    [] plan = "FOCUSED" /\ billing_cycle = "YEARLY" -> 6000
    [] plan = "PRO" /\ billing_cycle = "MONTHLY" -> 1500
    [] plan = "PRO" /\ billing_cycle = "YEARLY" -> 12000
    [] OTHER -> 0
\* the rows the ledger held are still there, unchanged, in their places
LedgerKept == Len(txns') >= Len(txns) /\ \A r \in Refs : txns'[r] = txns[r]
\* the step added exactly one row to the ledger
OneRowAdded == Len(txns') = Len(txns) + 1 /\ \A r \in Refs : txns'[r] = txns[r]

\* C12: a successful initialize_payment for a paid plan adds exactly one
\* PENDING transaction, whose amount is the configured price of the plan and
\* cycle, under a reference no row had and with the provider's external
\* reference, and creates or changes no Subscription.
C12_InitializeAddsOnePending ==
  [][ last'.kind = "init" => \A u \in Users, plan \in Plans \ {"FREE"}, billing_cycle \in Cycles,
         provider \in Providers :
        initialize_payment(u, plan, billing_cycle, provider, TRUE) =>
          /\ OneRowAdded
          /\ last'.code = 200 /\ last'.reference = Len(txns') /\ last'.reference \notin Refs
          /\ LET tx == txns'[Len(txns')]
             IN  /\ tx.status = "PENDING"
                 /\ tx.user = u /\ tx.plan = plan /\ tx.billing_cycle = billing_cycle
                 /\ tx.provider = provider
                 /\ tx.amount = ConfiguredPrice(plan, billing_cycle)
                 /\ tx.external_reference # "NONE"
                 /\ tx.subscription_id = NoSub
          /\ subs' = subs ]_vars

\* C12 witness: a yearly PRO checkout was opened for a user who holds a
\* Subscription row.
C12_Witness ==
  /\ last.kind = "init" /\ last.code = 200
  /\ txns[last.reference].plan = "PRO" /\ txns[last.reference].billing_cycle = "YEARLY"
  /\ \E i \in SubIds : subs[i].user = txns[last.reference].user

\* C13: initialize_payment for the FREE plan, or for a plan whose amount is not
\* positive, is answered with a validation error; no row is written and the
\* provider is not contacted.
C13_FreeIsRejected ==
  [][ ( \E u \in Users, plan \in Plans, billing_cycle \in Cycles, provider \in Providers,
           ok \in BOOLEAN :
          /\ plan = "FREE" \/ ConfiguredPrice(plan, billing_cycle) <= 0
          /\ initialize_payment(u, plan, billing_cycle, provider, ok) ) =>
        /\ last'.kind = "init" /\ last'.code = 400
        /\ txns' = txns /\ subs' = subs
        /\ gateway' = gateway ]_vars

\* C13 witness: a request for the FREE plan was turned away while the ledger
\* holds a row.
C13_Witness ==
  /\ last.kind = "init" /\ last.code = 400 /\ last.reference = 0
  /\ Len(txns) > 0

\* C14: when the adapter fails during initialize_payment the new row is FAILED
\* with the reason attached, the caller gets an error, and the row stays in the
\* ledger (no step removes or rewrites a FAILED row).
C14_AdapterFailureIsRecorded ==
  [][ /\ last'.kind = "init" =>
          \A u \in Users, plan \in Plans \ {"FREE"}, billing_cycle \in Cycles,
             provider \in Providers :
          initialize_payment(u, plan, billing_cycle, provider, FALSE) =>
            /\ OneRowAdded
            /\ last'.kind = "init" /\ last'.code = 400
            /\ txns'[Len(txns')].status = "FAILED"
            /\ "error" \in txns'[Len(txns')].metadata
            /\ txns'[Len(txns')].user = u
      /\ LedgerKept ]_vars

\* C14 witness: a FAILED row written by a failed checkout is still in the
\* ledger after a later checkout.
C14_Witness ==
  /\ Len(txns) = 2
  /\ txns[1].status = "FAILED" /\ "error" \in txns[1].metadata
  /\ last.kind = "init" /\ last.reference = 2

\* slot p's verify_and_activate_subscription returns in this step, after its
\* provider.verify_payment call ended in an exception (a timeout, a transport
\* error: status "error")
ReturnsAfterTimeout(p) ==
  pc[p] = "verified" /\ vres[p].status = "error" /\ pc'[p] = "idle"

\* C15: when the provider call of verify_and_activate_subscription times out,
\* the transaction stays PENDING (so that a later verify or webhook can still
\* move it to SUCCESS).
C15_TimeoutLeavesPending ==
  [][ \A p \in Slots :
        ReturnsAfterTimeout(p) => txns'[ref[p]].status = "PENDING" ]_vars

\* the rows run k has attempted so far
Attempted(k) == { cron[k].tried[n] : n \in 1..Len(cron[k].tried) }
\* run k returns in this step
RunEnds(k) == cron[k].pc = "run" /\ cron'[k].pc = "idle"
\* the candidates of user u in the table the run selected from
CandidatesOf(k, u) ==
  { i \in 1..Len(cron[k].was) : cron[k].was[i].user = u /\ Candidate(cron[k].was[i], now) }
\* the candidate of user u the run has to charge: the newest ACTIVE one, or the
\* newest one when none is ACTIVE
Due(k, u) ==
  LET mine == CandidatesOf(k, u)
      active == { i \in mine : cron[k].was[i].status = "ACTIVE" }
  IN  MaxOf(IF active # {} THEN active ELSE mine)

\* C16: in one run every user with at least one candidate row gets exactly one
\* renewal attempt, on the newest ACTIVE candidate if the user has an ACTIVE
\* candidate and on the newest expired one otherwise; a user without a
\* candidate gets none.
C16_OneAttemptPerUser ==
  [][ \A k \in Crons : RunEnds(k) =>
        \A u \in Users :
          LET attempts == { n \in 1..Len(cron[k].tried) : cron[k].was[cron[k].tried[n]].user = u }
          IN  IF CandidatesOf(k, u) = {}
                THEN attempts = {}
                ELSE /\ Cardinality(attempts) = 1
                     /\ \A n \in attempts : cron[k].tried[n] = Due(k, u) ]_vars

\* C16 witness: a run has ended in which a user had an older ACTIVE and a newer
\* expired candidate, and the ACTIVE one was attempted.
C16_Witness ==
  /\ last.kind = "cron" /\ last.code = 200
  /\ \E i, j \in 1..Len(cron["c1"].was) :
       /\ i < j
       /\ cron["c1"].was[i].user = cron["c1"].was[j].user
       /\ Candidate(cron["c1"].was[i], now) /\ cron["c1"].was[i].status = "ACTIVE"
       /\ Candidate(cron["c1"].was[j], now) /\ cron["c1"].was[j].status = "EXPIRED"
       /\ i \in Attempted("c1")

\* C18: while a run is under way, every row whose charge failed has all its
\* fields as they were when the run selected it (end_date, status, auto_renew,
\* plan, payment_provider, payment_token).
C18_FailedRowUnchanged ==
  \A k \in Crons :
    (cron[k].pc = "run" /\ cron[k].success = 0) =>
      \A i \in Attempted(k) : subs[i] = cron[k].was[i]

\* C19: every renewal attempt records exactly one PaymentTransaction, tagged as
\* a renewal, linked to the subscription attempted, SUCCESS or FAILED.
C19_AttemptIsRecorded ==
  [][ \A k \in Crons :
        Len(cron'[k].tried) = Len(cron[k].tried) + 1 =>
          /\ Len(txns') = Len(txns) + 1
          /\ \A r \in Refs : txns'[r] = txns[r]
          /\ LET tx == txns'[Len(txns')]
             IN  /\ "renewal" \in tx.metadata
                 /\ tx.subscription_id = cron'[k].tried[Len(cron'[k].tried)]
                 /\ tx.status \in {"SUCCESS", "FAILED"} ]_vars

\* C20: when a run returns, every row it selected has been attempted, whatever
\* happened to the rows before it, and
\* processed = success + failed = the number of users that had a candidate.
C20_RunCompletesAndCounts ==
  [][ \A k \in Crons : RunEnds(k) =>
        /\ Attempted(k) = cron[k].picked
        /\ cron[k].processed = cron[k].success + cron[k].failed
        /\ cron[k].processed = Cardinality({ u \in Users : CandidatesOf(k, u) # {} }) ]_vars

\* C20 witness: a run has returned after two attempts; the first raised, the
\* second was made all the same and recorded its failed charge.
C20_Witness ==
  /\ last.kind = "cron" /\ last.code = 200
  /\ cron["c1"].processed = 2 /\ cron["c1"].failed = 2
  /\ Len(cron["c1"].tried) = 2
  /\ cron["c1"].was[cron["c1"].tried[1]].payment_provider = "PAYSTACK"
  /\ cron["c1"].was[cron["c1"].tried[2]].payment_provider = "OPAY"
  /\ Len(txns) = 1 /\ txns[1].subscription_id = cron["c1"].tried[2]

\* the provider renew_subscription charges row i through
ChargedThrough(i) ==
  IF subs[i].payment_provider = "NONE" THEN "PAYSTACK" ELSE subs[i].payment_provider

\* C21: charge_subscription can be called on the provider of every row a run
\* attempts: the call does not raise, and where the provider has no
\* recurring-charge API it answers a failure that carries a reason.
C21_ChargeNeverRaises ==
  [][ last'.kind = "renew" =>
        \A k \in Crons : \A i \in cron[k].todo :
          renew_subscription(k, i) =>
            \A result \in charge_subscription(ChargedThrough(i)) :
              /\ ~result.raises
              /\ result.success \/ result.error_message # "NONE" ]_vars

\* the decision table of the access gate
MayOpen(plan, is_free, price, in_track) ==
  \/ plan = "PRO"
  \/ plan \in {"FREE", "FOCUSED"} /\ (price = 0 \/ is_free)
  \/ plan = "FOCUSED" /\ in_track

\* C22: check_module_access allows PRO always, FREE and FOCUSED when the
\* course costs nothing or the module is free, FOCUSED also when the course is
\* in the user's learning-path track, and denies every other case; passing the
\* user's resolved plan gives the decision the call makes when it resolves the
\* plan itself.
C22_AccessDecisionTable ==
  [][ last'.kind = "access" =>
        LET plan == IF last'.plan = "NONE" THEN get_user_plan(last'.user, now)
                    ELSE last'.plan
        IN  /\ (last'.code = 200) <=>
                 MayOpen(plan, last'.is_free, last'.price, last'.in_track)
            /\ last'.code \in {200, 403}
            /\ check_module_access(last'.user, last'.is_free, last'.price, last'.in_track,
                                   "NONE", now)
                 <=> check_module_access(last'.user, last'.is_free, last'.price,
                                         last'.in_track, get_user_plan(last'.user, now), now) ]_vars

\* C22 witness: a user whose only valid row is a FREE row was refused a paid
\* module of a priced course of their learning-path track, the plan resolved
\* inside the call.
C22_Witness ==
  /\ last.kind = "access" /\ last.code = 403
  /\ last.plan = "NONE" /\ last.in_track /\ last.price > 0 /\ ~last.is_free
  /\ \E i \in SubIds : subs[i].user = last.user /\ subs[i].plan = "FREE"

\* user u has a Subscription row, of any status
HasRow(u) == \E i \in SubIds : subs[i].user = u

\* C23: get_or_create_subscription creates a row only for a user who has no
\* Subscription row at all (a user whose only rows are CANCELLED gets none),
\* and the row it creates is an ACTIVE FREE row with no end date.
C23_FreeRowOnlyForNewUser ==
  [][ \A u \in Users :
        get_or_create_subscription(u) =>
          /\ ~HasRow(u)
          /\ Len(subs') = Len(subs) + 1
          /\ subs'[Len(subs')].plan = "FREE" /\ subs'[Len(subs')].status = "ACTIVE"
          /\ subs'[Len(subs')].end_date = NoDate ]_vars

\* the purchases of user u: the transactions of u that ended SUCCESS
Purchases(u) == { r \in Refs : txns[r].user = u /\ txns[r].status = "SUCCESS" }
\* the rows of user u that a cancel has closed
CancelledRows(u) == { i \in SubIds : subs[i].user = u /\ subs[i].status = "CANCELLED" }
\* user u has cancelled, and has bought nothing that is not cancelled yet
AlreadyCancelled(u) ==
  /\ CancelledRows(u) # {}
  /\ Cardinality(Purchases(u)) <= Cardinality(CancelledRows(u))

\* C24: a cancel request from a user whose subscription is already cancelled,
\* with no purchase since, is answered with an error and changes no
\* Subscription row.
C24_SecondCancelRefused ==
  [][ \A u \in Users :
        (AlreadyCancelled(u) /\ cancel_subscription(u)) =>
          /\ last'.code = 400
          /\ subs' = subs ]_vars

\* C25: no run attempts a charge on a row that, when the run selected, was
\* CANCELLED, had auto_renew off, had no end_date or one later than now, had no
\* payment_token, or was on the FREE plan.
C25_OnlyDueRowsCharged ==
  \A k \in Crons :
    cron[k].pc = "run" =>
      \A i \in cron[k].picked \cup Attempted(k) :
        LET s == cron[k].was[i]
        IN  /\ s.status # "CANCELLED"
            /\ s.auto_renew = TRUE
            /\ s.end_date # NoDate /\ ~(s.end_date > now)
            /\ s.payment_token # "NONE"
            /\ s.plan # "FREE"

\* C25 witness: a run is attempting a user's due row while the table holds a
\* row that a user has cancelled, which the run has left out.
C25_Witness ==
  /\ cron["c1"].pc = "run" /\ Len(cron["c1"].tried) > 0
  /\ \E i \in SubIds :
       /\ subs[i].status = "CANCELLED" /\ subs[i].auto_renew = FALSE
       /\ subs[i].payment_token # "NONE" /\ subs[i].end_date <= now
       /\ i \notin cron["c1"].picked

\* PRO > FOCUSED > FREE
Rank(plan) == CASE plan = "PRO" -> 3 [] plan = "FOCUSED" -> 2 [] plan = "FREE" -> 1 [] OTHER -> 0
\* the rows of user u that count now: ACTIVE, or CANCELLED with end_date ahead
Counting(u) ==
  { i \in SubIds :
      /\ subs[i].user = u
      /\ \/ subs[i].status = "ACTIVE"
         \/ subs[i].status = "CANCELLED" /\ subs[i].end_date > now }

\* C26: get_best_valid_subscription returns, among the user's rows that are
\* ACTIVE or CANCELLED with end_date > now, the row of highest plan priority,
\* the newest one among rows of equal priority, and returns none exactly when
\* there is no such row (the plan is then FREE).
C26_BestValidRow ==
  \A u \in Users :
    LET best == get_best_valid_subscription(u, now)
    IN  IF Counting(u) = {}
          THEN best = NoSub /\ get_user_plan(u, now) = "FREE"
          ELSE /\ best \in Counting(u)
               /\ \A j \in Counting(u) :
                    \/ Rank(subs[best].plan) > Rank(subs[j].plan)
                    \/ Rank(subs[best].plan) = Rank(subs[j].plan) /\ j <= best
               /\ get_user_plan(u, now) = subs[best].plan

\* C26 witness: the skills pages were opened by a user who holds an older PRO
\* row in its grace period, a newer FOCUSED row that is ACTIVE and a cancelled
\* row whose end_date has passed; the plan was resolved from the PRO row.
C26_Witness ==
  /\ last.kind = "skills" /\ last.code = 200
  /\ \E i, j, k \in SubIds :
       /\ i < j
       /\ subs[i].user = last.user /\ subs[j].user = last.user /\ subs[k].user = last.user
       /\ subs[i].plan = "PRO" /\ subs[i].status = "CANCELLED" /\ subs[i].end_date > now
       /\ subs[j].plan = "FOCUSED" /\ subs[j].status = "ACTIVE"
       /\ subs[k].status = "CANCELLED" /\ subs[k].end_date <= now
       /\ last.reference = i

\* slot p's verify_and_activate_subscription returns in this step, after the
\* provider reported the payment as not yet completed
ReturnsWhilePending(p) ==
  pc[p] = "verified" /\ vres[p].status = "pending" /\ pc'[p] = "idle"

\* C27: a verify that runs while the provider still reports the payment as
\* pending does not write the transaction as FAILED: the row stays PENDING, so
\* that a later verify or webhook can end it SUCCESS.
C27_EarlyVerifyKeepsPending ==
  [][ \A p \in Slots :
        ReturnsWhilePending(p) =>
          txns'[ref[p]].status = "PENDING" ]_vars

\* C28: a transaction is marked SUCCESS and the plan activated only when the
\* amount the provider verified equals the amount on the ledger row: a
\* confirmed payment of a smaller amount activates nothing.
C28_ActivatesOnlyFullAmount ==
  [][ \A p \in Slots :
        (pc[p] = "activate" /\ pc'[p] = "idle") =>
          /\ vres[p].amount = "full"
          /\ gateway[ref[p]] # "short" ]_vars

\* C29: every paid Subscription row that a successful verification wrote holds
\* a payment_provider and a payment_token and has auto_renew on, so that the
\* renewal job selects it once its end_date has passed.
C29_PaidRowsRenewable ==
  \A i \in SubIds :
    (subs[i].plan # "FREE" /\ subs[i].status = "ACTIVE") =>
      /\ subs[i].payment_provider # "NONE"
      /\ subs[i].payment_token # "NONE"
      /\ subs[i].auto_renew
      /\ Candidate(subs[i], subs[i].end_date)

\* the users for whom run k has issued a charge_subscription call: the users of
\* the rows it attempted through a provider that has the method
ChargedUsers(k) ==
  { subs[i].user : i \in { j \in Attempted(k) : ChargedThrough(j) = "OPAY" } }

\* C30: two runs that overlap never both charge for the same user: while both
\* are under way, no user has had a charge_subscription call (and with it a
\* renewal PaymentTransaction) from each of them.
C30_OverlappingRunsChargeOnce ==
  (cron["c1"].pc = "run" /\ cron["c2"].pc = "run") =>
    ChargedUsers("c1") \cap ChargedUsers("c2") = {}

====
